---- MODULE Spec2Model ----
(***************************************************************************)
(* Model of the anota server: the express route handlers (registerRoutes), *)
(* the DatabaseStorage data-access layer and the zod schemas of            *)
(* shared/schema.ts.  The relational tables are sets of rows, the session  *)
(* store maps each client (cookie jar) to the userId of its session.       *)
(* The dashboard page of the client is its React state (filter,            *)
(* editingNote, the form values) and the mutations its buttons fire.       *)
(***************************************************************************)
EXTENDS Integers, FiniteSets, Sequences, TLC

VARIABLES users, nextUserId, notes, nextNoteId, sessions, pending, last,
          dashboard

vars == <<users, nextUserId, notes, nextNoteId, sessions, pending, last,
          dashboard>>

(* ------------------------------ bounds --------------------------------- *)
\* largest value the users.id identity sequence hands out
MaxUserId == 3
\* largest value the notes.id identity sequence hands out
MaxNoteId == 2

(* ------------------------------ inputs --------------------------------- *)
Clients == {"c1", "c2"}
\* the clients that use the note routes
NoteClients == {"c1"}

\* the salts bcrypt.genSalt draws
Salts == {"salt1"}

\* values of the status field of a request body
Statuses == {"A Fazer", "Concluida", "Feito"}

\* req.params.id, a string of characters
IdParams == {<<"1">>, <<"2", "x">>, <<"3">>, <<"x">>}

NoUser == 0
NaN == -1
NoReq == [name |-> "", email |-> "", password |-> ""]
NoProfile == [id |-> 0, name |-> "", email |-> ""]

(* ------------------------- strings and parsing ------------------------- *)
\* String.length of the strings the model uses
StrLen(s) ==
    CASE s = "" -> 0
      [] s = "short" -> 5
      [] s = "Ana" -> 3
      [] s \in {"secret1", "secret2"} -> 7
      [] s \in {"Pay bills"} -> 9
      [] s \in {"Call mom"} -> 8
      [] s \in {"ana-at-x"} -> 8
      [] s \in {"ana@x.com", "Ana@x.com"} -> 9
      [] s \in {"2024-01-01", "2024-01-02", "31-31-2024"} -> 10
      [] s \in {"A Fazer"} -> 7
      [] s \in {"Concluida"} -> 9
      [] s \in {"Feito"} -> 5

\* z.string().email(): the well-formed addresses among Emails
IsEmail(s) == s \in {"ana@x.com", "Ana@x.com"}

\* what the date column of PostgreSQL accepts
IsDate(s) == s \in {"2024-01-01", "2024-01-02"}

IsDigit(ch) == ch \in {"0", "1", "2", "3", "4", "5", "6", "7", "8", "9"}

DigitVal(ch) ==
    CASE ch = "0" -> 0 [] ch = "1" -> 1 [] ch = "2" -> 2 [] ch = "3" -> 3
      [] ch = "4" -> 4 [] ch = "5" -> 5 [] ch = "6" -> 6 [] ch = "7" -> 7
      [] ch = "8" -> 8 [] ch = "9" -> 9

RECURSIVE DigitPrefix(_, _)
\* value of the longest prefix of digits of s, acc being the value so far
DigitPrefix(s, acc) ==
    IF s = <<>> \/ ~IsDigit(Head(s)) THEN acc
    ELSE DigitPrefix(Tail(s), 10 * acc + DigitVal(Head(s)))

\* parseInt(req.params.id): NaN unless the string starts with a digit
ParseInt(s) ==
    IF s = <<>> \/ ~IsDigit(Head(s)) THEN NaN ELSE DigitPrefix(s, 0)

DigitChar(d) ==
    CASE d = 0 -> "0" [] d = 1 -> "1" [] d = 2 -> "2" [] d = 3 -> "3"
      [] d = 4 -> "4" [] d = 5 -> "5" [] d = 6 -> "6" [] d = 7 -> "7"
      [] d = 8 -> "8" [] d = 9 -> "9"

RECURSIVE NumberToString(_)
\* `${id}`: the decimal digits of a number that is not negative
NumberToString(n) ==
    IF n < 10 THEN <<DigitChar(n)>>
    ELSE Append(NumberToString(n \div 10), DigitChar(n % 10))

\* the instants at which the browser reads its clock: a day of the UTC
\* calendar and a time of that day
Instants == [date : {"2024-01-01", "2024-01-02"}, time : {"00:30", "23:30"}]

\* new Date().toISOString().split('T')[0]: the text before the T of
\* <date>T<time>Z, the day of the UTC calendar
Today(now) == now.date

(* ------------------------------ responses ------------------------------ *)
Resp(status, message) ==
    [status |-> status, message |-> message, issues |-> {},
     user |-> NoProfile, notes |-> {}]

\* fromZodError(error): one issue per offending field
ValidationError(issues) ==
    [Resp(400, "Validation error") EXCEPT !.issues = issues]

Unauthorized == Resp(401, "Nao autorizado")
EmailInUse == Resp(400, "Email ja esta em uso")
InvalidCredentials == Resp(401, "Email ou senha invalidos")
\* a login answer that tells the caller the email is not registered
NoSuchEmailLeak == Resp(404, "Email nao cadastrado")
\* the answer of login when getUserByEmail finds no user
NoSuchEmail == Resp(401, "Email ou senha invalidos")
\* the answer of login when bcrypt.compare fails
WrongPassword == Resp(401, "Email ou senha invalidos")
InternalError == Resp(500, "Erro interno do servidor")
LogoutOk == Resp(200, "Logout realizado com sucesso")
LogoutFailed == Resp(500, "Erro ao fazer logout")
UserNotFound == Resp(404, "Usuario nao encontrado")
NoteNotFound == Resp(404, "Anotacao nao encontrada")
NoteDeleted == Resp(200, "Anotacao excluida com sucesso")
ListFailed == Resp(500, "Erro ao buscar anotacoes")
CreateFailed == Resp(500, "Erro ao criar anotacao")
UpdateFailed == Resp(500, "Erro ao atualizar anotacao")
DeleteFailed == Resp(500, "Erro ao excluir anotacao")

PublicProfile(u) == [id |-> u.id, name |-> u.name, email |-> u.email]

UserOk(u) == [Resp(200, "") EXCEPT !.user = PublicProfile(u)]

NotesOk(ns) == [Resp(200, "") EXCEPT !.notes = ns]

(* ------------------------------- schemas ------------------------------- *)
\* insertUserSchema.parse(body): the fields zod rejects
insertUserSchema(body) ==
    {f \in {"email"} : ~IsEmail(body.email)}
        \cup {f \in {"password"} : StrLen(body.password) < 6}
        \cup {f \in {"name"} : StrLen(body.name) < 1}

\* loginSchema.parse(body): the fields zod rejects
loginSchema(body) ==
    {f \in {"email"} : ~IsEmail(body.email)}
        \cup {f \in {"password"} : StrLen(body.password) < 1}

NoteFields == {"title", "createdDate", "completedDate", "status"}

\* a schema that takes the status as any string
NoteFieldOkAnyStatus(f, v) ==
    CASE f = "title" -> StrLen(v) >= 1
      [] f = "status" -> TRUE
      [] f = "createdDate" -> TRUE
      [] f = "completedDate" -> StrLen(v) >= 1

\* the check insertNoteSchema makes of one field that is present
NoteFieldOk(f, v) ==
    CASE f = "title" -> StrLen(v) >= 1
      [] f = "status" -> v \in {"A Fazer", "Concluida"}
      [] f = "createdDate" -> TRUE
      [] f = "completedDate" -> StrLen(v) >= 1

\* insertNoteSchema.parse(body): every field is required
insertNoteSchema(body) ==
    {f \in NoteFields : f \notin DOMAIN body \/ ~NoteFieldOk(f, body[f])}

\* insertNoteSchema.partial().parse(body): only the fields present are checked
insertNoteSchemaPartial(body) ==
    {f \in NoteFields \cap DOMAIN body : ~NoteFieldOk(f, body[f])}

\* a schema that passes every key of the body on
ValidatedPassthrough(body) == body

\* z.object strips the keys the schema does not know (id and userId are omitted)
Validated(body) == [f \in NoteFields \cap DOMAIN body |-> body[f]]

(* ------------------------------- storage ------------------------------- *)
\* bcrypt.hash(password, 10) with the salt bcrypt drew
Hash(password, salt) ==
    [alg |-> "bcrypt", rounds |-> 10, salt |-> salt, digest |-> password]

\* a comparison that looks at the length of the password only
CompareLength(password, hash) == StrLen(password) = StrLen(hash.digest)

\* bcrypt.compare(password, hash): rehash with the stored salt and compare
Compare(password, hash) == Hash(password, hash.salt) = hash

\* DatabaseStorage.getUser: the rows with that id (none: undefined)
getUser(us, id) == {u \in us : u.id = id}

\* a lookup that matches the email against the name column
getUserByName(us, email) == {u \in us : u.name = email}

\* DatabaseStorage.getUserByEmail: the rows with that email (none: undefined)
getUserByEmail(us, email) == {u \in us : u.email = email}

\* an insert into a users table that has no unique constraint on email
createUserNoUnique(us, nextId, insertUser) ==
    LET row == [id |-> nextId, name |-> insertUser.name,
                email |-> insertUser.email, password |-> insertUser.password]
    IN [ok |-> TRUE, rows |-> {row}, users |-> us \cup {row}]

\* DatabaseStorage.createUser: the identity sequence gives the id, and the
\* unique constraint on users.email makes the insert throw
createUser(us, nextId, insertUser) ==
    LET row == [id |-> nextId, name |-> insertUser.name,
                email |-> insertUser.email, password |-> insertUser.password]
    IN IF \E u \in us : u.email = insertUser.email
       THEN [ok |-> FALSE, rows |-> {}, users |-> us]
       ELSE [ok |-> TRUE, rows |-> {row}, users |-> us \cup {row}]

\* a select that forgets the WHERE clause
getAllNotes(ns, userId) == ns

\* DatabaseStorage.getNotesByUserId
getNotesByUserId(ns, userId) == {n \in ns : n.userId = userId}

\* the date columns reject a string that is not a date
DatesOk(vals) ==
    /\ "createdDate" \in DOMAIN vals => IsDate(vals.createdDate)
    /\ "completedDate" \in DOMAIN vals => IsDate(vals.completedDate)

\* an insert that binds the two dates to each other's column
createNoteSwapDates(ns, nextId, note) ==
    LET row == [id |-> nextId, userId |-> note.userId, title |-> note.title,
                createdDate |-> note.completedDate,
                completedDate |-> note.createdDate, status |-> note.status]
    IN IF ~DatesOk(note)
       THEN [ok |-> FALSE, rows |-> {}, notes |-> ns]
       ELSE [ok |-> TRUE, rows |-> {row}, notes |-> ns \cup {row}]

\* DatabaseStorage.createNote
createNote(ns, nextId, note) ==
    LET row == [id |-> nextId, userId |-> note.userId, title |-> note.title,
                createdDate |-> note.createdDate,
                completedDate |-> note.completedDate, status |-> note.status]
    IN IF ~DatesOk(note)
       THEN [ok |-> FALSE, rows |-> {}, notes |-> ns]
       ELSE [ok |-> TRUE, rows |-> {row}, notes |-> ns \cup {row}]

\* an UPDATE that writes the column default of status when none is given
SetFieldsDefaultStatus(row, noteUpdate) ==
    [row EXCEPT !.title = IF "title" \in DOMAIN noteUpdate
                          THEN noteUpdate.title ELSE @,
                !.createdDate = IF "createdDate" \in DOMAIN noteUpdate
                                THEN noteUpdate.createdDate ELSE @,
                !.completedDate = IF "completedDate" \in DOMAIN noteUpdate
                                  THEN noteUpdate.completedDate ELSE @,
                !.status = IF "status" \in DOMAIN noteUpdate
                           THEN noteUpdate.status ELSE "A Fazer"]

\* the row after UPDATE ... SET noteUpdate: set() writes every column the
\* object names
SetFields(row, noteUpdate) ==
    [f \in DOMAIN row |->
        IF f \in DOMAIN noteUpdate THEN noteUpdate[f] ELSE row[f]]

\* a WHERE clause that matches on the id alone
NoteWhereId(ns, id, userId) == {n \in ns : n.id = id}

\* WHERE notes.id = id AND notes.user_id = userId
NoteWhere(ns, id, userId) == {n \in ns : n.id = id /\ n.userId = userId}

\* DatabaseStorage.updateNote: set() of no values throws, and so does a NaN
\* id or a malformed date when the statement is bound
updateNote(ns, id, userId, noteUpdate) ==
    LET hit == NoteWhere(ns, id, userId)
        new == {SetFields(n, noteUpdate) : n \in hit}
    IN IF DOMAIN noteUpdate = {} \/ id = NaN \/ ~DatesOk(noteUpdate)
       THEN [ok |-> FALSE, rows |-> {}, notes |-> ns]
       ELSE [ok |-> TRUE, rows |-> new, notes |-> (ns \ hit) \cup new]

\* a delete that reports the rows it matched and leaves them in the table
deleteNoteKeepsRow(ns, id, userId) ==
    LET hit == NoteWhere(ns, id, userId)
    IN IF id = NaN
       THEN [ok |-> FALSE, deleted |-> FALSE, notes |-> ns]
       ELSE [ok |-> TRUE, deleted |-> hit # {}, notes |-> ns]

\* DatabaseStorage.deleteNote: rowCount > 0
deleteNote(ns, id, userId) ==
    LET hit == NoteWhere(ns, id, userId)
    IN IF id = NaN
       THEN [ok |-> FALSE, deleted |-> FALSE, notes |-> ns]
       ELSE [ok |-> TRUE, deleted |-> hit # {}, notes |-> ns \ hit]

(* ------------------------------- handlers ------------------------------ *)
\* a middleware that lets every request through
requireNothing(userId) == TRUE

\* requireAuth: next() is called only when the session carries a userId
requireAuth(userId) == userId # NoUser

\* POST /api/auth/register up to the await of bcrypt.hash: the response, or
\* none yet (done = FALSE) when the body is valid and the email is free
RegisterStart(us, body) ==
    IF insertUserSchema(body) # {}
    THEN [done |-> TRUE, resp |-> ValidationError(insertUserSchema(body))]
    ELSE IF getUserByEmail(us, body.email) # {}
    THEN [done |-> TRUE, resp |-> EmailInUse]
    ELSE [done |-> FALSE, resp |-> Resp(0, "")]

\* a register handler that forgets to set req.session.userId
RegisterFinishNoSession(us, nextId, ss, c, validatedData, salt) ==
    LET hashedPassword == Hash(validatedData.password, salt)
        ins == createUser(us, nextId,
                          [validatedData EXCEPT !.password = hashedPassword])
    IN IF ~ins.ok
       THEN [resp |-> InternalError, users |-> us, sessions |-> ss]
       ELSE [resp |-> UserOk(CHOOSE u \in ins.rows : TRUE),
             users |-> ins.users, sessions |-> ss]

\* POST /api/auth/register from bcrypt.hash on: insert, set the session, answer
RegisterFinish(us, nextId, ss, c, validatedData, salt) ==
    LET hashedPassword == Hash(validatedData.password, salt)
        ins == createUser(us, nextId,
                          [validatedData EXCEPT !.password = hashedPassword])
    IN IF ~ins.ok
       THEN [resp |-> InternalError, users |-> us, sessions |-> ss]
       ELSE LET user == CHOOSE u \in ins.rows : TRUE
            IN [resp |-> UserOk(user), users |-> ins.users,
                sessions |-> [ss EXCEPT ![c] = user.id]]

\* a login that destroys the session it arrives with when it is refused
LoginResultDropsSession(us, ss, c, body) ==
    LET found == getUserByEmail(us, body.email)
        none == [ss EXCEPT ![c] = NoUser]
    IN IF loginSchema(body) # {}
       THEN [resp |-> ValidationError(loginSchema(body)), sessions |-> none]
       ELSE IF found = {}
       THEN [resp |-> NoSuchEmail, sessions |-> none]
       ELSE LET user == CHOOSE u \in found : TRUE
            IN IF ~Compare(body.password, user.password)
               THEN [resp |-> WrongPassword, sessions |-> none]
               ELSE [resp |-> UserOk(user),
                     sessions |-> [ss EXCEPT ![c] = user.id]]

\* a login that sets req.session.userId before it compares the password
LoginResultBindsFirst(us, ss, c, body) ==
    LET found == getUserByEmail(us, body.email)
    IN IF loginSchema(body) # {}
       THEN [resp |-> ValidationError(loginSchema(body)), sessions |-> ss]
       ELSE IF found = {}
       THEN [resp |-> NoSuchEmail, sessions |-> ss]
       ELSE LET user == CHOOSE u \in found : TRUE
            IN IF ~Compare(body.password, user.password)
               THEN [resp |-> WrongPassword,
                     sessions |-> [ss EXCEPT ![c] = user.id]]
               ELSE [resp |-> UserOk(user),
                     sessions |-> [ss EXCEPT ![c] = user.id]]

\* POST /api/auth/login
LoginResult(us, ss, c, body) ==
    LET found == getUserByEmail(us, body.email)
    IN IF loginSchema(body) # {}
       THEN [resp |-> ValidationError(loginSchema(body)), sessions |-> ss]
       ELSE IF found = {}
       THEN [resp |-> NoSuchEmail, sessions |-> ss]
       ELSE LET user == CHOOSE u \in found : TRUE
            IN IF ~Compare(body.password, user.password)
               THEN [resp |-> WrongPassword, sessions |-> ss]
               ELSE [resp |-> UserOk(user),
                     sessions |-> [ss EXCEPT ![c] = user.id]]

\* a logout that answers without destroying the session
LogoutResultKeep(ss, c, err) ==
    IF err
    THEN [resp |-> LogoutFailed, sessions |-> ss]
    ELSE [resp |-> LogoutOk, sessions |-> ss]

\* a logout that rejects a caller who has no session
LogoutResultStrict(ss, c, err) ==
    IF err
    THEN [resp |-> LogoutFailed, sessions |-> ss]
    ELSE IF ss[c] = NoUser
    THEN [resp |-> Unauthorized, sessions |-> ss]
    ELSE [resp |-> LogoutOk, sessions |-> [ss EXCEPT ![c] = NoUser]]

\* POST /api/auth/logout: err is what the store's destroy hands the callback
LogoutResult(ss, c, err) ==
    IF err
    THEN [resp |-> LogoutFailed, sessions |-> ss]
    ELSE [resp |-> LogoutOk, sessions |-> [ss EXCEPT ![c] = NoUser]]

\* a handler that answers a missing user as it answers a missing session
MeResultUnauthorized(us, userId) ==
    IF ~requireAuth(userId) \/ getUser(us, userId) = {} THEN Unauthorized
    ELSE UserOk(CHOOSE u \in getUser(us, userId) : TRUE)

\* GET /api/auth/me
MeResult(us, userId) ==
    IF ~requireAuth(userId) THEN Unauthorized
    ELSE IF getUser(us, userId) = {} THEN UserNotFound
    ELSE UserOk(CHOOSE u \in getUser(us, userId) : TRUE)

\* GET /api/notes
GetNotesResult(ns, userId) ==
    IF ~requireAuth(userId) THEN Unauthorized
    ELSE NotesOk(getNotesByUserId(ns, userId))

\* a handler that spreads the request body over the session's userId
PostNoteResultBodyOwner(ns, nextId, userId, body) ==
    LET owner == IF "userId" \in DOMAIN body THEN body.userId ELSE userId
        ins == createNote(ns, nextId,
                          [f \in NoteFields \cup {"userId"} |->
                              IF f = "userId" THEN owner ELSE body[f]])
    IN IF ~requireAuth(userId)
       THEN [resp |-> Unauthorized, notes |-> ns, nextId |-> nextId]
       ELSE IF insertNoteSchema(body) # {}
       THEN [resp |-> ValidationError(insertNoteSchema(body)),
             notes |-> ns, nextId |-> nextId]
       ELSE IF ~ins.ok
       THEN [resp |-> CreateFailed, notes |-> ns, nextId |-> nextId]
       ELSE [resp |-> NotesOk(ins.rows), notes |-> ins.notes,
             nextId |-> nextId + 1]

\* POST /api/notes
PostNoteResult(ns, nextId, userId, body) ==
    LET validatedData == Validated(body)
        ins == createNote(ns, nextId,
                          [f \in NoteFields \cup {"userId"} |->
                              IF f = "userId" THEN userId ELSE validatedData[f]])
    IN IF ~requireAuth(userId)
       THEN [resp |-> Unauthorized, notes |-> ns, nextId |-> nextId]
       ELSE IF insertNoteSchema(body) # {}
       THEN [resp |-> ValidationError(insertNoteSchema(body)),
             notes |-> ns, nextId |-> nextId]
       ELSE IF ~ins.ok
       THEN [resp |-> CreateFailed, notes |-> ns, nextId |-> nextId]
       ELSE [resp |-> NotesOk(ins.rows), notes |-> ins.notes,
             nextId |-> nextId + 1]

\* PUT /api/notes/:id
PutNoteResult(ns, userId, param, body) ==
    LET noteId == ParseInt(param)
        upd == updateNote(ns, noteId, userId, Validated(body))
    IN IF ~requireAuth(userId)
       THEN [resp |-> Unauthorized, notes |-> ns]
       ELSE IF insertNoteSchemaPartial(body) # {}
       THEN [resp |-> ValidationError(insertNoteSchemaPartial(body)),
             notes |-> ns]
       ELSE IF ~upd.ok
       THEN [resp |-> UpdateFailed, notes |-> ns]
       ELSE IF upd.rows = {}
       THEN [resp |-> NoteNotFound, notes |-> ns]
       ELSE [resp |-> NotesOk(upd.rows), notes |-> upd.notes]

\* DELETE /api/notes/:id
DeleteNoteResult(ns, userId, param) ==
    LET noteId == ParseInt(param)
        del == deleteNote(ns, noteId, userId)
    IN IF ~requireAuth(userId)
       THEN [resp |-> Unauthorized, notes |-> ns]
       ELSE IF ~del.ok
       THEN [resp |-> DeleteFailed, notes |-> ns]
       ELSE IF ~del.deleted
       THEN [resp |-> NoteNotFound, notes |-> ns]
       ELSE [resp |-> NoteDeleted, notes |-> del.notes]

(* ------------------------------ dashboard ------------------------------ *)
\* a mark-completed request that sends the status and no date
markCompletedStatusOnly(ns, userId, id, now) ==
    PutNoteResult(ns, userId, NumberToString(id), [status |-> "Concluida"])

\* a mark-completed request that sends the status of a note to do
markCompletedUndo(ns, userId, id, now) ==
    PutNoteResult(ns, userId, NumberToString(id),
                  [status |-> "A Fazer", completedDate |-> Today(now)])

\* markCompletedMutation.mutationFn(id): PUT /api/notes/<id> with the status
\* of a finished note and the day the browser's clock shows
markCompleted(ns, userId, id, now) ==
    PutNoteResult(ns, userId, NumberToString(id),
                  [status |-> "Concluida", completedDate |-> Today(now)])

\* editingNote when it is null
NoNote ==
    [id |-> 0, userId |-> NoUser, title |-> "", createdDate |-> "",
     completedDate |-> "", status |-> ""]

\* the defaultValues of the note form, also the values of its resets
DefaultValues(now) ==
    [title |-> "", createdDate |-> Today(now), completedDate |-> Today(now),
     status |-> "A Fazer"]

\* the page before DashboardPage is rendered
NotMounted ==
    [open |-> FALSE, filter |-> "all", editingNote |-> NoNote,
     form |-> [title |-> "", createdDate |-> "", completedDate |-> "",
               status |-> ""]]

\* the state of DashboardPage at its first render
Mounted(now) ==
    [open |-> TRUE, filter |-> "all", editingNote |-> NoNote,
     form |-> DefaultValues(now)]

\* filteredNotes: the notes of the list that the filter lets through
filteredNotes(ns, filter) ==
    {n \in ns : \/ filter = "all"
                \/ filter = "todo" /\ n.status = "A Fazer"
                \/ filter = "completed" /\ n.status = "Concluida"}

\* handleEdit(note)
handleEdit(d, note, now) ==
    [d EXCEPT !.editingNote = note,
              !.form = [title |-> note.title,
                        createdDate |-> note.createdDate,
                        completedDate |-> IF note.completedDate = ""
                                          THEN Today(now)
                                          ELSE note.completedDate,
                        status |-> note.status]]

\* handleCancelEdit()
handleCancelEdit(d, now) ==
    [d EXCEPT !.editingNote = NoNote, !.form = DefaultValues(now)]

(* --------------------------- request bodies ---------------------------- *)
\* bodies of POST /api/auth/register: the well-formed ones, and the defects
UserBodies ==
    [name : {"Ana"}, email : {"ana@x.com", "Ana@x.com"},
     password : {"secret1", "secret2"}]
    \cup [name : {""}, email : {"ana@x.com"}, password : {"secret1"}]
    \cup [name : {"Ana"}, email : {"ana@x.com"}, password : {"short", ""}]
    \cup [name : {"Ana"}, email : {"ana-at-x"}, password : {"secret1", "short"}]

\* bodies of POST /api/auth/login
LoginBodies ==
    [email : {"ana@x.com", "Ana@x.com"}, password : {"secret1", "secret2", ""}]
    \cup [email : {"ana-at-x"}, password : {"secret1"}]

\* the bodies a client that fills the forms in correctly sends
FormUserBodies ==
    [name : {"Ana"}, email : {"ana@x.com", "Ana@x.com"}, password : {"secret1"}]

FormLoginBodies ==
    [email : {"ana@x.com", "Ana@x.com"}, password : {"secret1"}]

\* bodies of POST /api/notes: the well-formed ones, one for each defect, and
\* well-formed ones that carry a note id and an owner id as well
CreateBodies ==
    [title : {"Pay bills"}, createdDate : {"2024-01-01"},
     completedDate : {"2024-01-01"}, status : {"A Fazer", "Concluida"}]
    \cup [title : {""}, createdDate : {"2024-01-01"},
          completedDate : {"2024-01-01"}, status : {"A Fazer"}]
    \cup [title : {"Pay bills"}, createdDate : {"", "31-31-2024"},
          completedDate : {"2024-01-01"}, status : {"A Fazer"}]
    \cup [title : {"Pay bills"}, createdDate : {"2024-01-01"},
          completedDate : {"", "31-31-2024"}, status : {"A Fazer"}]
    \cup [title : {"Pay bills"}, createdDate : {"2024-01-01"},
          completedDate : {"2024-01-01"}, status : {"Feito"}]
    \cup [title : {"Pay bills"}, createdDate : {"2024-01-01"},
          status : {"A Fazer"}]
    \cup [title : {"Pay bills"}, createdDate : {"2024-01-01"},
          completedDate : {"2024-01-01"}, status : {"A Fazer"},
          id : {1}, userId : {1, 2}]

\* bodies of PUT /api/notes/:id: none, one or two fields, or all of them
UpdateBodies ==
    {<<>>}
    \cup [title : {""}] \cup [status : Statuses]
    \cup [completedDate : {"", "31-31-2024"}]
    \cup [status : {"Concluida"}, completedDate : {"2024-01-01"}]
    \cup [title : {"Pay bills"}, createdDate : {"2024-01-01"},
          completedDate : {"2024-01-01"}, status : {"A Fazer"}]

(* ------------------------------- actions ------------------------------- *)
\* the request just answered: the route, the client, the userId its session
\* carried, the email of the body, the note id the storage looked for (0 when
\* the handler did not get that far) and the response
Req(op, c, email, id, resp) ==
    [op |-> op, client |-> c, userId |-> sessions[c], email |-> email,
     id |-> IF resp.status \in {200, 404} THEN id ELSE 0, resp |-> resp]

Init ==
    /\ users = {}
    /\ nextUserId = 1
    /\ notes = {}
    /\ nextNoteId = 1
    /\ sessions = [c \in Clients |-> NoUser]
    /\ pending = [c \in Clients |-> NoReq]
    /\ last = [op |-> "none", client |-> "c1", userId |-> NoUser, email |-> "",
               id |-> 0, resp |-> Resp(0, "")]
    /\ dashboard = NotMounted

\* a register request arrives and runs to its response or to its first await
Register(c, body) ==
    LET r == RegisterStart(users, body)
    IN /\ pending[c] = NoReq
       /\ IF r.done
          THEN /\ last' = Req("register", c, body.email, 0, r.resp)
               /\ UNCHANGED pending
          ELSE /\ pending' = [pending EXCEPT ![c] = body]
               /\ UNCHANGED last
       /\ UNCHANGED <<users, nextUserId, notes, nextNoteId, sessions, dashboard>>

\* the register request of client c resumes after bcrypt.hash
RegisterInsert(c, salt) ==
    LET r == RegisterFinish(users, nextUserId, sessions, c, pending[c], salt)
    IN /\ pending[c] # NoReq
       /\ nextUserId <= MaxUserId
       /\ users' = r.users
       /\ nextUserId' = nextUserId + 1
       /\ sessions' = r.sessions
       /\ pending' = [pending EXCEPT ![c] = NoReq]
       /\ last' = Req("register", c, pending[c].email, 0, r.resp)
       /\ UNCHANGED <<notes, nextNoteId, dashboard>>

Login(c, body) ==
    LET r == LoginResult(users, sessions, c, body)
    IN /\ sessions' = r.sessions
       /\ last' = Req("login", c, body.email, 0, r.resp)
       /\ UNCHANGED <<users, nextUserId, notes, nextNoteId, pending, dashboard>>

Logout(c, err) ==
    LET r == LogoutResult(sessions, c, err)
    IN /\ sessions' = r.sessions
       /\ last' = Req("logout", c, "", 0, r.resp)
       /\ UNCHANGED <<users, nextUserId, notes, nextNoteId, pending, dashboard>>

\* the session of client c outlives cookie.maxAge
Expire(c) ==
    /\ sessions[c] # NoUser
    /\ sessions' = [sessions EXCEPT ![c] = NoUser]
    /\ UNCHANGED <<users, nextUserId, notes, nextNoteId, pending, last, dashboard>>

Me(c) ==
    /\ last' = Req("me", c, "", 0, MeResult(users, sessions[c]))
    /\ UNCHANGED <<users, nextUserId, notes, nextNoteId, sessions, pending, dashboard>>

GetNotes(c) ==
    /\ last' = Req("list", c, "", 0, GetNotesResult(notes, sessions[c]))
    /\ UNCHANGED <<users, nextUserId, notes, nextNoteId, sessions, pending, dashboard>>

PostNote(c, body) ==
    LET r == PostNoteResult(notes, nextNoteId, sessions[c], body)
    IN /\ nextNoteId <= MaxNoteId
       /\ notes' = r.notes
       /\ nextNoteId' = r.nextId
       /\ last' = Req("create", c, "", 0, r.resp)
       /\ UNCHANGED <<users, nextUserId, sessions, pending, dashboard>>

PutNote(c, param, body) ==
    LET r == PutNoteResult(notes, sessions[c], param, body)
    IN /\ notes' = r.notes
       /\ last' = Req("update", c, "", ParseInt(param), r.resp)
       /\ UNCHANGED <<users, nextUserId, nextNoteId, sessions, pending, dashboard>>

DeleteNote(c, param) ==
    LET r == DeleteNoteResult(notes, sessions[c], param)
    IN /\ notes' = r.notes
       /\ last' = Req("delete", c, "", ParseInt(param), r.resp)
       /\ UNCHANGED <<users, nextUserId, nextNoteId, sessions, pending, dashboard>>

\* the requests of the authentication routes, two clients racing
NextAuth ==
    \/ \E c \in Clients, body \in UserBodies : Register(c, body)
    \/ \E c \in Clients, salt \in Salts : RegisterInsert(c, salt)
    \/ \E c \in Clients, body \in LoginBodies : Login(c, body)
    \/ \E c \in Clients, err \in BOOLEAN : Logout(c, err)
    \/ \E c \in Clients : Expire(c)
    \/ \E c \in Clients : Me(c)

SpecAuth == Init /\ [][NextAuth]_vars

\* every route, the authentication forms filled in correctly
Next ==
    \/ \E c \in NoteClients, body \in FormUserBodies : Register(c, body)
    \/ \E c \in NoteClients, salt \in Salts : RegisterInsert(c, salt)
    \/ \E c \in NoteClients, body \in FormLoginBodies : Login(c, body)
    \/ \E c \in NoteClients, err \in BOOLEAN : Logout(c, err)
    \/ \E c \in NoteClients : Expire(c)
    \/ \E c \in NoteClients : Me(c)
    \/ \E c \in NoteClients : GetNotes(c)
    \/ \E c \in NoteClients, body \in CreateBodies : PostNote(c, body)
    \/ \E c \in NoteClients, param \in IdParams, body \in UpdateBodies :
           PutNote(c, param, body)
    \/ \E c \in NoteClients, param \in IdParams : DeleteNote(c, param)

Spec == Init /\ [][Next]_vars

\* the well-formed registration the note-field runs start from
FieldUserBodies ==
    [name : {"Ana"}, email : {"ana@x.com"}, password : {"secret1"}]

\* well-formed bodies of POST /api/notes that differ in every field
FieldCreateBodies ==
    [title : {"Pay bills"}, createdDate : {"2024-01-01"},
     completedDate : {"2024-01-02"}, status : {"A Fazer"}]
    \cup [title : {"Call mom"}, createdDate : {"2024-01-02"},
          completedDate : {"2024-01-01"}, status : {"Concluida"}]

\* well-formed bodies of PUT /api/notes/:id: one field, two fields, and one
\* that carries the keys the schema omits
FieldUpdateBodies ==
    [title : {"Call mom"}] \cup [status : {"A Fazer", "Concluida"}]
    \cup [completedDate : {"2024-01-01"}]
    \cup [createdDate : {"2024-01-02"}, status : {"A Fazer"}]
    \cup [title : {"Call mom"}, id : {2}, userId : {2}]

\* the ids the dashboard can ask to mark as completed
FieldIds == 1..3

\* the mark-completed request of the dashboard, sent at the instant now
MarkCompleted(c, id, now) ==
    LET r == markCompleted(notes, sessions[c], id, now)
    IN /\ notes' = r.notes
       /\ last' = Req("complete", c, "", id, r.resp)
       /\ UNCHANGED <<users, nextUserId, nextNoteId, sessions, pending, dashboard>>

\* the note routes with field values that vary, one user
NextFields ==
    \/ \E c \in NoteClients, body \in FieldUserBodies : Register(c, body)
    \/ \E c \in NoteClients, salt \in Salts : RegisterInsert(c, salt)
    \/ \E c \in NoteClients : GetNotes(c)
    \/ \E c \in NoteClients, body \in FieldCreateBodies : PostNote(c, body)
    \/ \E c \in NoteClients, id \in FieldIds, body \in FieldUpdateBodies :
           PutNote(c, NumberToString(id), body)
    \/ \E c \in NoteClients, id \in FieldIds, now \in Instants :
           MarkCompleted(c, id, now)

SpecFields == Init /\ [][NextFields]_vars

\* an administrator removes the user id from the database: the notes of the
\* user go with it (onDelete cascade), the session store is not told
AdminDeleteUser(id) ==
    /\ \E u \in users : u.id = id
    /\ users' = {u \in users : u.id # id}
    /\ notes' = {n \in notes : n.userId # id}
    /\ UNCHANGED <<nextUserId, nextNoteId, sessions, pending, last, dashboard>>

\* the authentication routes and the list of notes, with an administrator
\* at the database
NextAdmin ==
    \/ \E c \in NoteClients, body \in FormUserBodies : Register(c, body)
    \/ \E c \in NoteClients, salt \in Salts : RegisterInsert(c, salt)
    \/ \E c \in NoteClients, body \in FormLoginBodies : Login(c, body)
    \/ \E c \in NoteClients, err \in BOOLEAN : Logout(c, err)
    \/ \E c \in NoteClients : Expire(c)
    \/ \E c \in NoteClients : Me(c)
    \/ \E c \in NoteClients : GetNotes(c)
    \/ \E id \in 1..MaxUserId : AdminDeleteUser(id)

SpecAdmin == Init /\ [][NextAdmin]_vars

\* the instants at which the dashboard runs read the clock
DashboardInstants == {now \in Instants : now.date = "2024-01-01"}

\* what the user types into the title input and picks in the status select
FormInputs ==
    [field : {"title"}, value : {"Pay bills"}]
    \cup [field : {"status"}, value : {"A Fazer", "Concluida"}]

Filters == {"all", "todo", "completed"}

\* the notes the dashboard of client c shows: the list of the session's
\* user, refetched after every mutation, through the filter
Displayed(c) ==
    filteredNotes(GetNotesResult(notes, sessions[c]).notes, dashboard.filter)

\* the signed-in client opens the dashboard, which fetches the notes
OpenDashboard(c, now) ==
    /\ ~dashboard.open
    /\ sessions[c] # NoUser
    /\ dashboard' = Mounted(now)
    /\ last' = Req("list", c, "", 0, GetNotesResult(notes, sessions[c]))
    /\ UNCHANGED <<users, nextUserId, notes, nextNoteId, sessions, pending>>

\* the user changes a field of the form
FormInput(in) ==
    /\ dashboard.open
    /\ dashboard' = [dashboard EXCEPT !.form[in.field] = in.value]
    /\ UNCHANGED <<users, nextUserId, notes, nextNoteId, sessions, pending,
                   last>>

\* form.handleSubmit(onSubmit) while a note is edited: the resolver lets
\* valid data through, updateNoteMutation sends it and clears editingNote
\* when the answer is ok
SubmitEdit(c) ==
    LET id == dashboard.editingNote.id
        r == PutNoteResult(notes, sessions[c], NumberToString(id),
                           dashboard.form)
    IN /\ dashboard.open
       /\ dashboard.editingNote # NoNote
       /\ insertNoteSchema(dashboard.form) = {}
       /\ notes' = r.notes
       /\ last' = Req("update", c, "", id, r.resp)
       /\ dashboard' = IF r.resp.status = 200
                       THEN [dashboard EXCEPT !.editingNote = NoNote]
                       ELSE dashboard
       /\ UNCHANGED <<users, nextUserId, nextNoteId, sessions, pending>>

\* form.handleSubmit(onSubmit) while no note is edited: createNoteMutation
\* sends the data and resets the form when the answer is ok
SubmitNew(c, now) ==
    LET r == PostNoteResult(notes, nextNoteId, sessions[c], dashboard.form)
    IN /\ dashboard.open
       /\ dashboard.editingNote = NoNote
       /\ insertNoteSchema(dashboard.form) = {}
       /\ nextNoteId <= MaxNoteId
       /\ notes' = r.notes
       /\ nextNoteId' = r.nextId
       /\ last' = Req("create", c, "", 0, r.resp)
       /\ dashboard' = IF r.resp.status = 200
                       THEN [dashboard EXCEPT !.form = DefaultValues(now)]
                       ELSE dashboard
       /\ UNCHANGED <<users, nextUserId, sessions, pending>>

\* the edit button of a note on the list
HandleEdit(c, n, now) ==
    /\ dashboard.open
    /\ n \in Displayed(c)
    /\ dashboard' = handleEdit(dashboard, n, now)
    /\ UNCHANGED <<users, nextUserId, notes, nextNoteId, sessions, pending,
                   last>>

\* the cancel button, shown while a note is edited
HandleCancelEdit(now) ==
    /\ dashboard.open
    /\ dashboard.editingNote # NoNote
    /\ dashboard' = handleCancelEdit(dashboard, now)
    /\ UNCHANGED <<users, nextUserId, notes, nextNoteId, sessions, pending,
                   last>>

\* one of the three filter buttons
SetFilter(filter) ==
    /\ dashboard.open
    /\ dashboard' = [dashboard EXCEPT !.filter = filter]
    /\ UNCHANGED <<users, nextUserId, notes, nextNoteId, sessions, pending,
                   last>>

\* the mark-completed button, shown on the notes to do of the list
ClickMarkCompleted(c, n, now) ==
    /\ dashboard.open
    /\ n \in Displayed(c)
    /\ n.status = "A Fazer"
    /\ MarkCompleted(c, n.id, now)

\* the delete button of a note on the list
ClickDelete(c, n) ==
    /\ dashboard.open
    /\ n \in Displayed(c)
    /\ DeleteNote(c, NumberToString(n.id))

\* one user registers and works on the dashboard
NextDashboard ==
    \/ \E c \in NoteClients, body \in FieldUserBodies : Register(c, body)
    \/ \E c \in NoteClients, salt \in Salts : RegisterInsert(c, salt)
    \/ \E c \in NoteClients, now \in DashboardInstants : OpenDashboard(c, now)
    \/ \E in \in FormInputs : FormInput(in)
    \/ \E c \in NoteClients : SubmitEdit(c)
    \/ \E c \in NoteClients, now \in DashboardInstants : SubmitNew(c, now)
    \/ \E c \in NoteClients, n \in notes, now \in DashboardInstants :
           HandleEdit(c, n, now)
    \/ \E now \in DashboardInstants : HandleCancelEdit(now)
    \/ \E filter \in Filters : SetFilter(filter)
    \/ \E c \in NoteClients, n \in notes, now \in DashboardInstants :
           ClickMarkCompleted(c, n, now)
    \/ \E c \in NoteClients, n \in notes : ClickDelete(c, n)

SpecDashboard == Init /\ [][NextDashboard]_vars

(* ------------------------------------------------------------------------ *)
(* Properties                                                               *)
(* ------------------------------------------------------------------------ *)
\* an id parameter that names no note: the sequence never reaches 9
MissingId == <<"9">>

\* the parameters that parseInt turns into the id of note n
ParamsOf(n) == {param \in IdParams : ParseInt(param) = n.id}

\* the bodies of PUT the handler passes on to the storage and the database
\* accepts: valid fields, at least one of them, well-formed dates
Storable(body) ==
    /\ insertNoteSchemaPartial(body) = {}
    /\ DOMAIN Validated(body) # {}
    /\ DatesOk(Validated(body))

\* C1 as stated: for every note N and every authenticated user U who is not
\* its owner, Update(N.id) and Delete(N.id) by U answer NotFound, leave N as
\* it is and answer as they do for an id that does not exist.
C1_NonOwnerAlwaysNotFound ==
    \A c \in Clients, n \in notes, body \in UpdateBodies :
        (requireAuth(sessions[c]) /\ sessions[c] # n.userId) =>
            \A param \in ParamsOf(n) :
                LET put == PutNoteResult(notes, sessions[c], param, body)
                    del == DeleteNoteResult(notes, sessions[c], param)
                IN /\ put.resp = NoteNotFound
                   /\ put.notes = notes
                   /\ put.resp = PutNoteResult(notes, sessions[c], MissingId, body).resp
                   /\ del.resp = NoteNotFound
                   /\ del.notes = notes
                   /\ del.resp = DeleteNoteResult(notes, sessions[c], MissingId).resp

\* C1 amended: Update(N.id) and Delete(N.id) by a user who is not N's owner
\* never succeed, leave every note as it is and answer exactly as the same
\* request does for an id that does not exist: Delete with NotFound; Update
\* with NotFound when the body is storable, with ValidationError when a field
\* of the body is invalid, with InternalError when the body is empty or holds
\* a malformed date.
C1_NonOwnerAsMissing ==
    \A c \in Clients, n \in notes, body \in UpdateBodies :
        (requireAuth(sessions[c]) /\ sessions[c] # n.userId) =>
            \A param \in ParamsOf(n) :
                LET put == PutNoteResult(notes, sessions[c], param, body)
                    del == DeleteNoteResult(notes, sessions[c], param)
                    issues == insertNoteSchemaPartial(body)
                IN /\ put.resp.status # 200
                   /\ put.notes = notes
                   /\ put.resp = PutNoteResult(notes, sessions[c], MissingId, body).resp
                   /\ put.resp = IF issues # {} THEN ValidationError(issues)
                                 ELSE IF Storable(body) THEN NoteNotFound
                                 ELSE UpdateFailed
                   /\ del.resp = NoteNotFound
                   /\ del.notes = notes
                   /\ del.resp = DeleteNoteResult(notes, sessions[c], MissingId).resp

\* C1 witness: an update of an existing note by a logged-in user who does not
\* own it has just been answered with NotFound.
C1_Witness ==
    /\ last.op = "update"
    /\ last.resp = NoteNotFound
    /\ last.userId # NoUser
    /\ \E n \in notes : n.id = last.id /\ n.userId # last.userId

\* C2: the notes a List request of an authenticated user U returns are
\* exactly the rows of the notes table whose owner is U.
C2_ListIsOwnNotes ==
    (last.op = "list" /\ last.userId # NoUser) =>
        /\ last.resp.status = 200
        /\ \A n \in notes : n \in last.resp.notes <=> n.userId = last.userId
        /\ last.resp.notes \subseteq notes

\* C2 witness: a List has just returned a note of its caller while the table
\* also holds a note of another user.
C2_Witness ==
    /\ last.op = "list"
    /\ last.resp.status = 200
    /\ \E n \in last.resp.notes : n.userId = last.userId
    /\ \E n \in notes : n.userId # last.userId

\* a step that answers a protected request of client c
ProtectedStep(c) ==
    /\ last'.client = c
    /\ \/ Me(c)
       \/ GetNotes(c)
       \/ \E body \in CreateBodies : PostNote(c, body)
       \/ \E param \in IdParams, body \in UpdateBodies : PutNote(c, param, body)
       \/ \E param \in IdParams : DeleteNote(c, param)

\* C3: a protected request (whoami, list, create, update, delete) of a client
\* whose session carries no user is answered Unauthenticated, and the users,
\* the notes and the sessions are left as they were.
C3_Unauthenticated ==
    [][\A c \in Clients :
          (sessions[c] = NoUser /\ ProtectedStep(c)) =>
              /\ last'.resp = Unauthorized
              /\ users' = users /\ nextUserId' = nextUserId
              /\ notes' = notes /\ nextNoteId' = nextNoteId
              /\ sessions' = sessions]_vars

\* C3 witness: a create request arrived on a session that had expired or been
\* destroyed, users and notes being there, and was answered Unauthenticated.
C3_Witness ==
    /\ last.op = "create"
    /\ last.userId = NoUser
    /\ last.resp = Unauthorized
    /\ users # {}
    /\ notes # {}

\* the registered users the submitted email and password authenticate: the
\* stored hash is the hash of the submitted password under the stored salt
Matching(body) ==
    {u \in users : u.email = body.email
                   /\ u.password = Hash(body.password, u.password.salt)}

\* C4 as stated: Login succeeds, binding the session to the matching user, if
\* and only if the email is registered and the password matches the stored
\* hash; every other Login is answered InvalidCredentials.
C4_LoginElseInvalidCredentials ==
    \A c \in Clients, body \in LoginBodies :
        LET r == LoginResult(users, sessions, c, body)
        IN /\ r.resp.status = 200 <=> Matching(body) # {}
           /\ Matching(body) = {} => r.resp = InvalidCredentials

\* C4 amended: Login succeeds, binding the session to the matching user and
\* returning that user's profile, if and only if the email is registered and
\* the password matches the stored hash; every other Login fails and leaves
\* the session as it was, with ValidationError when the email is malformed or
\* the password is empty and with InvalidCredentials otherwise, a well-formed
\* email that is not registered included.
C4_LoginIffMatch ==
    \A c \in Clients, body \in LoginBodies :
        LET r == LoginResult(users, sessions, c, body)
        IN /\ r.resp.status = 200 <=> Matching(body) # {}
           /\ \A u \in Matching(body) :
                  /\ r.sessions = [sessions EXCEPT ![c] = u.id]
                  /\ r.resp.user = [id |-> u.id, name |-> u.name, email |-> u.email]
           /\ Matching(body) = {} =>
                  /\ r.sessions = sessions
                  /\ r.resp = IF loginSchema(body) # {}
                              THEN ValidationError(loginSchema(body))
                              ELSE InvalidCredentials

\* C4 witness: with two users registered under different passwords, a Login
\* has just succeeded and the session of its client is that user's.
C4_Witness ==
    /\ last.op = "login"
    /\ last.resp.status = 200
    /\ sessions[last.client] = last.resp.user.id
    /\ \E u, v \in users : u.email = last.email /\ v.password.digest # u.password.digest

\* C5: a Login that does not authenticate gets the same response (status and
\* message) whether or not its email is registered: the answer in a state
\* where the email is registered equals the answer in the state that differs
\* only in that user being absent.
C5_LoginHidesExistence ==
    \A c \in Clients, body \in LoginBodies, u \in users :
        (u.email = body.email /\ Matching(body) = {}) =>
            LoginResult(users, sessions, c, body).resp
                = LoginResult(users \ {u}, sessions, c, body).resp

\* C5 witness: a Login with a registered email and a wrong password has just
\* been answered InvalidCredentials.
C5_Witness ==
    /\ last.op = "login"
    /\ last.resp = InvalidCredentials
    /\ \E u \in users : u.email = last.email

\* C6 as stated: Register with an email that is already registered is
\* answered DuplicateEmail whatever the other fields contain.
C6_DuplicateWhateverFields ==
    \A body \in UserBodies :
        (\E u \in users : u.email = body.email) =>
            RegisterStart(users, body) = [done |-> TRUE, resp |-> EmailInUse]

\* C6 amended: Register with an email that is already registered always
\* fails, creates no user and binds no session; it is answered DuplicateEmail
\* when the name and the password are valid, and ValidationError when the
\* name is empty or the password is shorter than 6 characters.
C6_DuplicateFails ==
    [][\A c \in Clients, body \in UserBodies :
          (/\ \E u \in users : u.email = body.email
           /\ pending'[c] = body \/ (last'.client = c /\ last'.email = body.email)
           /\ Register(c, body)) =>
              /\ last'.resp = IF insertUserSchema(body) # {}
                              THEN ValidationError(insertUserSchema(body))
                              ELSE EmailInUse
              /\ last'.op = "register" /\ last'.client = c
              /\ users' = users
              /\ sessions' = sessions
              /\ pending' = pending]_vars

\* C6 witness: a Register with a registered email has just been answered
\* DuplicateEmail.
C6_Witness ==
    /\ last.op = "register"
    /\ last.resp = EmailInUse
    /\ \E u \in users : u.email = last.email

\* C7: no two User records have the same email (compared exactly) and no two
\* have the same id, whatever the interleaving of the Register requests.
C7_UsersUnique ==
    \A u, v \in users : (u.email = v.email \/ u.id = v.id) => u = v

\* C7 witness: two users are registered and the insert of a Register request
\* that raced with another has just been rejected by the unique constraint.
C7_Witness ==
    /\ Cardinality(users) = 2
    /\ last.op = "register"
    /\ last.resp = InternalError

\* C8: a successful Register creates exactly one new User, made of the
\* submitted name and email, and leaves the caller's session bound to the new
\* user's id, so that whoami on that session returns the new user.
C8_RegisterSignsIn ==
    [][\A c \in Clients, salt \in Salts :
          (last'.client = c /\ last'.op = "register"
              /\ last'.resp.status = 200 /\ RegisterInsert(c, salt)) =>
              \E u \in users' :
                  /\ u \notin users
                  /\ users' = users \cup {u}
                  /\ u.name = pending[c].name /\ u.email = pending[c].email
                  /\ \A v \in users : v.id # u.id
                  /\ sessions'[c] = u.id
                  /\ last'.resp.user = [id |-> u.id, name |-> u.name,
                                        email |-> u.email]
                  /\ MeResult(users', sessions'[c]) = last'.resp]_vars

\* C8 witness: a Register has just succeeded for a second user on a session
\* that was bound to nobody, and the session is the new user's.
C8_Witness ==
    /\ last.op = "register"
    /\ last.resp.status = 200
    /\ last.userId = NoUser
    /\ sessions[last.client] = last.resp.user.id
    /\ Cardinality(users) = 2

\* every protected handler refuses the session value userId in the state
\* made of the tables us and ns, and changes nothing
Refused(us, ns, nextId, userId) ==
    /\ MeResult(us, userId) = Unauthorized
    /\ GetNotesResult(ns, userId) = Unauthorized
    /\ \A body \in CreateBodies :
           PostNoteResult(ns, nextId, userId, body)
               = [resp |-> Unauthorized, notes |-> ns, nextId |-> nextId]
    /\ \A param \in IdParams, body \in UpdateBodies :
           PutNoteResult(ns, userId, param, body)
               = [resp |-> Unauthorized, notes |-> ns]
    /\ \A param \in IdParams :
           DeleteNoteResult(ns, userId, param)
               = [resp |-> Unauthorized, notes |-> ns]

\* C9: a successful Logout leaves the session without a user, so that every
\* protected request on it is answered Unauthenticated; the session gets a
\* user again only by a successful Login or Register on it; and a Logout
\* changes no user and no note.
C9_LogoutEndsSession ==
    [][\A c \in Clients :
          /\ (last'.client = c /\ last'.op = "logout"
                 /\ \E err \in BOOLEAN : Logout(c, err)) =>
                 /\ users' = users /\ nextUserId' = nextUserId
                 /\ notes' = notes /\ nextNoteId' = nextNoteId
                 /\ last'.resp = LogoutOk =>
                        /\ sessions'[c] = NoUser
                        /\ Refused(users', notes', nextNoteId', sessions'[c])
          /\ (sessions[c] = NoUser /\ sessions'[c] # NoUser) =>
                 /\ last'.client = c
                 /\ last'.op \in {"login", "register"}
                 /\ last'.resp.status = 200
                 /\ sessions'[c] = last'.resp.user.id]_vars

\* C9 witness: a Logout has just succeeded on a session that was bound to a
\* user, users and notes being there, and the session has no user now.
C9_Witness ==
    /\ last.op = "logout"
    /\ last.resp = LogoutOk
    /\ last.userId # NoUser
    /\ sessions[last.client] = NoUser
    /\ users # {}
    /\ notes # {}

\* C10: Logout answers with the success acknowledgement whether or not the
\* session holds a user, and with InternalError exactly when the session store
\* fails; on a session without a user it changes nothing, and a second Logout
\* after a successful one gets the same answer and leaves the same state.
C10_LogoutIdempotent ==
    [][\A c \in Clients, err \in BOOLEAN :
          (last'.client = c /\ last'.op = "logout" /\ Logout(c, err)) =>
              /\ last'.resp = IF err THEN LogoutFailed ELSE LogoutOk
              /\ last'.resp.status = 500 <=> err
              /\ sessions[c] = NoUser =>
                     /\ sessions' = sessions
                     /\ users' = users /\ notes' = notes
              /\ ~err =>
                     /\ LogoutResult(sessions', c, FALSE).resp = last'.resp
                     /\ LogoutResult(sessions', c, FALSE).sessions = sessions']_vars

\* C10 witness: with a user registered, a Logout on a session that holds no
\* user has just been answered with the success acknowledgement.
C10_Witness ==
    /\ last.op = "logout"
    /\ last.resp = LogoutOk
    /\ last.userId = NoUser
    /\ users # {}

\* the bodies of POST /api/notes that are valid note input: every field
\* passes the schema and both dates are calendar dates
ValidInput(body) ==
    /\ insertNoteSchema(body) = {}
    /\ DatesOk(Validated(body))

\* C11: in every reachable state, for every signed-in user U and every valid
\* note input, Create answers 200 with one note, and the List of U that
\* follows returns that note: its title, createdDate, completedDate and
\* status are the submitted ones, its owner is U, and no other stored note
\* has its id.
C11_CreateThenList ==
    \A c \in NoteClients, body \in FieldCreateBodies \cup CreateBodies :
        (sessions[c] # NoUser /\ ValidInput(body)) =>
            LET U == sessions[c]
                r == PostNoteResult(notes, nextNoteId, U, body)
                l == GetNotesResult(r.notes, U)
            IN /\ r.resp.status = 200
               /\ l.status = 200
               /\ \E n \in r.resp.notes :
                      /\ r.resp.notes = {n}
                      /\ n \in l.notes
                      /\ \A f \in NoteFields : n[f] = body[f]
                      /\ n.userId = U
                      /\ \A m \in r.notes : m.id = n.id => m = n
                      /\ \A m \in notes : m.id # n.id

\* a Create has succeeded while another note was stored
C11_Witness ==
    /\ last.op = "create"
    /\ last.resp.status = 200
    /\ \E n \in last.resp.notes, m \in notes :
           /\ n \in notes
           /\ n.userId = last.userId
           /\ m.id # n.id
           /\ n.title # m.title

\* the request body without the keys insertNoteSchema omits
WithoutIds(body) == [f \in DOMAIN body \ {"id", "userId"} |-> body[f]]

\* C12: in every reachable state, every note a Create of a signed-in session
\* adds is owned by the session's user and gets its id from the sequence,
\* whatever userId or id the request body carries: the answer and the stored
\* notes are those of the same body without these two keys.
C12_OwnerFromSession ==
    \A c \in NoteClients, body \in CreateBodies :
        sessions[c] # NoUser =>
            LET r == PostNoteResult(notes, nextNoteId, sessions[c], body)
            IN /\ \A n \in r.notes \ notes :
                      n.userId = sessions[c] /\ n.id = nextNoteId
               /\ \A n \in r.resp.notes : n.userId = sessions[c]
               /\ r = PostNoteResult(notes, nextNoteId, sessions[c],
                                     WithoutIds(body))

\* a Create has stored a note for its session's user although its body, for
\* all that the stored fields tell, named another registered user as owner
C12_Witness ==
    /\ last.op = "create"
    /\ last.resp.status = 200
    /\ \E n \in last.resp.notes, body \in CreateBodies, u \in users :
           /\ n \in notes
           /\ n.userId = last.userId
           /\ "userId" \in DOMAIN body
           /\ body.userId = u.id
           /\ u.id # n.userId
           /\ body.id # n.id
           /\ \A f \in NoteFields : n[f] = body[f]

\* bad note input: a title that is empty, a status that is neither of the
\* two, or a date that is missing or is no calendar date
BadInput(body) ==
    \/ \E f \in NoteFields : f \notin DOMAIN body
    \/ StrLen(body.title) = 0
    \/ body.status \notin {"A Fazer", "Concluida"}
    \/ ~IsDate(body.createdDate)
    \/ ~IsDate(body.completedDate)

\* C13 as stated: in every reachable state a Create by a signed-in user with
\* bad input answers 400 with a validation error, never 500, and stores
\* nothing.
C13_BadInputIsValidationError ==
    \A c \in NoteClients, body \in CreateBodies :
        (sessions[c] # NoUser /\ BadInput(body)) =>
            LET r == PostNoteResult(notes, nextNoteId, sessions[c], body)
            IN /\ r.resp.status = 400
               /\ r.resp.message = "Validation error"
               /\ r.resp.issues # {}
               /\ r.notes = notes
               /\ r.nextId = nextNoteId

\* a Create with a malformed date has been answered with the 500 of the
\* failed insert
C13_Witness ==
    /\ last.op = "create"
    /\ last.userId # NoUser
    /\ last.resp = CreateFailed

\* C14: in every reachable state, when an Update of note n by its owner
\* succeeds, the answer carries one note, which is the row stored under the
\* id of n: each field the body supplies has the supplied value, every other
\* field, the id and the owner are those of n, and every other note is as it
\* was.
C14_UpdateSetsSuppliedFields ==
    \A c \in NoteClients, n \in notes,
       body \in FieldUpdateBodies \cup UpdateBodies :
        LET r == PutNoteResult(notes, sessions[c], NumberToString(n.id), body)
        IN (n.userId = sessions[c] /\ r.resp.status = 200) =>
               \E n2 \in r.resp.notes :
                   /\ r.resp.notes = {n2}
                   /\ n2 \in r.notes
                   /\ n2.id = n.id
                   /\ n2.userId = n.userId
                   /\ \A f \in NoteFields :
                          n2[f] = IF f \in DOMAIN body THEN body[f] ELSE n[f]
                   /\ r.notes \ {n2} = notes \ {n}

\* an Update of the title alone has succeeded: the stored note has the new
\* title and the dates and status it was created with, next to another note
C14_Witness ==
    /\ last.op = "update"
    /\ last.resp.status = 200
    /\ \E n2 \in last.resp.notes, m \in notes :
           /\ n2 \in notes
           /\ m.id # n2.id
           /\ n2.title = "Call mom"
           /\ n2.createdDate = "2024-01-01"
           /\ n2.completedDate = "2024-01-02"
           /\ n2.status = "A Fazer"

\* note n once marked as completed on the day d
Completed(n, d) == [n EXCEPT !.status = "Concluida", !.completedDate = d]

\* C15: in every reachable state, for every note n and its signed-in owner,
\* one MarkCompleted at instant t1 and a second one at instant t2 both answer
\* 200; after the first the note is n with status done and the completion
\* date the UTC day of t1, after the second it is n with status done and the
\* completion date the UTC day of t2; title, creation date, id and owner are
\* those of n and every other note is as it was.
C15_MarkCompletedIdempotent ==
    \A c \in NoteClients, n \in notes, t1 \in Instants, t2 \in Instants :
        n.userId = sessions[c] =>
            LET r1 == markCompleted(notes, sessions[c], n.id, t1)
                r2 == markCompleted(r1.notes, sessions[c], n.id, t2)
            IN /\ r1.resp = NotesOk({Completed(n, t1.date)})
               /\ r1.notes = (notes \ {n}) \cup {Completed(n, t1.date)}
               /\ r2.resp = NotesOk({Completed(n, t2.date)})
               /\ r2.notes = (notes \ {n}) \cup {Completed(n, t2.date)}

\* a MarkCompleted of the owner has succeeded on a note created as to do with
\* another completion date
C15_Witness ==
    /\ last.op = "complete"
    /\ last.resp.status = 200
    /\ \E n \in last.resp.notes :
           /\ n \in notes
           /\ n.userId = last.userId
           /\ n.title = "Pay bills"
           /\ n.createdDate = "2024-01-01"
           /\ n.completedDate = "2024-01-01"
           /\ n.status = "Concluida"

\* the session of client c carries the id of a user that is no longer stored
Orphaned(c) == sessions[c] # NoUser /\ getUser(users, sessions[c]) = {}

\* C16: the removal of a user by the administrator leaves every session as
\* it is; while the session of a client carries the id of a removed user,
\* GET /api/auth/me on it answers 404 "Usuario nao encontrado" and leaves the
\* session as it is, and the session passes requireAuth: the list of notes
\* answers 200 and no note route answers 401.
C16_OrphanedSession ==
    [][\A c \in NoteClients :
          /\ (\E id \in 1..MaxUserId : AdminDeleteUser(id)) =>
                 sessions' = sessions
          /\ Orphaned(c)' =>
                 /\ requireAuth(sessions'[c])
                 /\ MeResult(users', sessions'[c]) = UserNotFound
                 /\ GetNotesResult(notes', sessions'[c]).status = 200
                 /\ \A param \in IdParams :
                        /\ DeleteNoteResult(notes', sessions'[c], param).resp
                               # Unauthorized
                        /\ \A body \in UpdateBodies :
                               PutNoteResult(notes', sessions'[c], param,
                                             body).resp # Unauthorized
          /\ (Orphaned(c) /\ last'.client = c /\ Me(c)) =>
                 /\ last'.resp = UserNotFound
                 /\ sessions'[c] = sessions[c]
          /\ (Orphaned(c) /\ last'.client = c /\ GetNotes(c)) =>
                 /\ last'.resp.status = 200
                 /\ sessions'[c] = sessions[c]
      ]_vars

\* GET /api/auth/me has answered 404 for a session whose user was removed,
\* and the session is still there
C16_Witness ==
    /\ last.op = "me"
    /\ last.resp = UserNotFound
    /\ last.userId # NoUser
    /\ sessions[last.client] = last.userId
    /\ Orphaned(last.client)

\* C17: every stored note has status "A Fazer" or "Concluida"; a step that
\* changes the status of a note is a PUT on its id, by a session of its
\* owner, answered 200; and in every state the owner's PUT of either status
\* on any of their notes answers 200 and stores that status, whichever
\* status the note had.  No other step (create, delete, list, the
\* authentication routes, the expiry of a session) changes a status.
C17_StatusChangesByOwnerUpdate ==
    [][/\ \A n \in notes' : n.status \in {"A Fazer", "Concluida"}
       /\ \A n \in notes, n2 \in notes' :
              (n2.id = n.id /\ n2.status # n.status) =>
                  /\ last'.op = "update"
                  /\ last'.resp.status = 200
                  /\ last'.id = n.id
                  /\ last'.userId = n.userId
                  /\ last'.resp.notes = {n2}
       /\ \A c \in NoteClients, n \in notes :
              n.userId = sessions[c] =>
                  \A s \in {"A Fazer", "Concluida"} :
                      LET r == PutNoteResult(notes, sessions[c],
                                             NumberToString(n.id),
                                             [status |-> s])
                      IN /\ r.resp = NotesOk({[n EXCEPT !.status = s]})
                         /\ r.notes = (notes \ {n}) \cup {[n EXCEPT !.status = s]}
      ]_vars

\* the owner's PUT has been answered 200 with a note that is to do, while
\* another note of the same owner is done
C17_Witness ==
    /\ last.op = "update"
    /\ last.resp.status = 200
    /\ \E n \in last.resp.notes, m \in notes :
           /\ n \in notes
           /\ n.userId = last.userId
           /\ n.status = "A Fazer"
           /\ m.id # n.id
           /\ m.status = "Concluida"

\* the ids the sequence has handed out whose note is no longer stored: the
\* ids of the deleted notes
DeletedIds == {id \in 1..(nextNoteId - 1) : \A n \in notes : n.id # id}

\* the parameters that parseInt turns into id
ParamsFor(id) == {param \in IdParams \cup {NumberToString(id)} : ParseInt(param) = id}

\* C18 as stated, its part on later requests: in every reachable state, for
\* the id of every deleted note and every signed-in user, the note is in no
\* List, and Update and Delete on that id answer NotFound and change nothing.
C18_DeletedAlwaysNotFound ==
    \A c \in NoteClients, id \in DeletedIds, body \in UpdateBodies :
        requireAuth(sessions[c]) =>
            \A param \in ParamsFor(id) :
                LET put == PutNoteResult(notes, sessions[c], param, body)
                    del == DeleteNoteResult(notes, sessions[c], param)
                    list == GetNotesResult(notes, sessions[c])
                IN /\ \A n \in list.notes : n.id # id
                   /\ put.resp = NoteNotFound
                   /\ put.notes = notes
                   /\ del.resp = NoteNotFound
                   /\ del.notes = notes

\* what every signed-in user gets for the id of a deleted note
DeletedStaysGone ==
    \A c \in NoteClients, id \in DeletedIds, body \in UpdateBodies :
        requireAuth(sessions[c]) =>
            \A param \in ParamsFor(id) :
                LET put == PutNoteResult(notes, sessions[c], param, body)
                    del == DeleteNoteResult(notes, sessions[c], param)
                    list == GetNotesResult(notes, sessions[c])
                    issues == insertNoteSchemaPartial(body)
                IN /\ \A n \in list.notes : n.id # id
                   /\ put.resp.status # 200
                   /\ put.resp = IF issues # {} THEN ValidationError(issues)
                                 ELSE IF Storable(body) THEN NoteNotFound
                                 ELSE UpdateFailed
                   /\ put.notes = notes
                   /\ del.resp = NoteNotFound
                   /\ del.notes = notes

\* a step in which the owner's Delete is answered 200 removes that note and
\* no other; no step stores a note under an id that was handed out before
DeleteStep ==
    /\ \A c \in NoteClients, param \in IdParams :
          (last'.resp = NoteDeleted /\ DeleteNote(c, param)) =>
              \E n \in notes :
                  /\ n.id = ParseInt(param)
                  /\ n.userId = sessions[c]
                  /\ notes' = notes \ {n}
                  /\ n.id \in DeletedIds'
    /\ nextNoteId' >= nextNoteId
    /\ DeletedIds \subseteq DeletedIds'
    /\ \A n \in notes' \ notes :
          (\A m \in notes : m.id # n.id) => n.id = nextNoteId

\* C18 amended: a Delete of the owner answered 200 removes that note at
\* once and leaves every other note as it is; from then on the note is in no
\* List, its id is given to no later Create, a Delete on it by any signed-in
\* user answers NotFound, and an Update on it by any signed-in user never
\* succeeds: it answers NotFound when the body is storable, ValidationError
\* when a field of the body is invalid, InternalError when the body is empty
\* or holds a malformed date.
C18_DeletedStaysGone == []DeletedStaysGone /\ [][DeleteStep]_vars

\* the owner's Delete has been answered 200, the note is gone and another
\* note is still stored
C18_Witness ==
    /\ last.op = "delete"
    /\ last.resp = NoteDeleted
    /\ last.id \in DeletedIds
    /\ \E m \in notes : m.id # last.id

\* C20: after every step of the authentication routes each session that
\* carries a user id carries the id of a stored user; and a step that binds
\* the session of a client to a user id is a register or a login of that
\* client answered 200 with the profile of that user, whose email is the one
\* the request named.
C20_SessionsNameUsers ==
    [][\A c \in Clients :
          /\ sessions'[c] # NoUser => getUser(users', sessions'[c]) # {}
          /\ (sessions'[c] # sessions[c] /\ sessions'[c] # NoUser) =>
                 /\ last'.client = c
                 /\ last'.op \in {"register", "login"}
                 /\ last'.resp.status = 200
                 /\ \E u \in users' :
                        /\ u.id = sessions'[c]
                        /\ u.email = last'.email
                        /\ last'.resp = UserOk(u)]_vars

\* both clients are signed in to stored users, the last of them by a login,
\* after an insert that lost the race for an email has used up an id
C20_Witness ==
    /\ \A c \in Clients : sessions[c] # NoUser
    /\ \A c \in Clients : getUser(users, sessions[c]) # {}
    /\ last.op = "login"
    /\ last.resp.status = 200
    /\ sessions[last.client] = last.resp.user.id
    /\ nextUserId > Cardinality(users) + 1

\* note n is done before the step and to do after it
Reopened(n) ==
    /\ n.status = "Concluida"
    /\ \E n2 \in notes' : n2.id = n.id /\ n2.status = "A Fazer"

\* C19 as stated: no step of the dashboard (mark-completed button, edit,
\* form input and submit, cancel edit, filter change, delete) changes a note
\* that is done back to a note to do.
C19_DashboardNeverReopens ==
    [][\A n \in notes : ~Reopened(n)]_vars

\* C19 amended: the mark-completed button is shown on notes to do only and
\* leaves the note done; the only step of the dashboard that changes a note
\* from done back to to do is the submit of the form while that note is
\* edited and the status of the form is "A Fazer", which the select offers
\* and which the form also holds when the note was opened for editing before
\* it was marked as completed; the edit button, the cancel button, the form
\* inputs, the filter buttons and the delete button change no status.
C19_OnlyEditFormReopens ==
    [][/\ \A n \in notes :
              Reopened(n) =>
                  /\ dashboard.editingNote.id = n.id
                  /\ dashboard.form.status = "A Fazer"
                  /\ last'.op = "update"
                  /\ last'.resp.status = 200
                  /\ \E c \in NoteClients : SubmitEdit(c)
       /\ \A c \in NoteClients, n \in notes, now \in DashboardInstants :
              (last'.op = "complete" /\ ClickMarkCompleted(c, n, now)) =>
                  /\ n.status = "A Fazer"
                  /\ \E n2 \in notes' :
                         /\ n2.id = n.id
                         /\ n2.status = "Concluida"
                         /\ notes' = (notes \ {n}) \cup {n2}
       /\ (\E n \in notes, n2 \in notes' :
               n2.id = n.id /\ n2.status # n.status) =>
              last'.op \in {"update", "complete"}
      ]_vars

\* the submit of the edit form has been answered 200 with a note to do,
\* while the list shows the completed notes only: the note was on that list
\* when its edit button was clicked
C19_Witness ==
    /\ dashboard.open
    /\ dashboard.filter = "completed"
    /\ dashboard.editingNote = NoNote
    /\ dashboard.form.status = "A Fazer"
    /\ last.op = "update"
    /\ last.resp.status = 200
    /\ \E n \in last.resp.notes : n \in notes /\ n.status = "A Fazer"

\* the id and the owner of every note of ns
Identities(ns) == {[id |-> n.id, userId |-> n.userId] : n \in ns}

\* C21: in every reachable state, for every Update request of every client,
\* on every id and with every body, also one that carries id and userId, the
\* stored notes after the request are as many as before and have the same
\* ids with the same owners.
C21_IdAndOwnerFixed ==
    \A c \in NoteClients, id \in FieldIds,
       body \in FieldUpdateBodies \cup UpdateBodies :
        LET r == PutNoteResult(notes, sessions[c], NumberToString(id), body)
        IN /\ Identities(r.notes) = Identities(notes)
           /\ Cardinality(r.notes) = Cardinality(notes)
           /\ \A n \in r.resp.notes :
                  [id |-> n.id, userId |-> n.userId] \in Identities(notes)

\* an Update has succeeded on a note whose fields are those of a body that
\* names another id and another owner, and the note has kept its own
C21_Witness ==
    /\ last.op = "update"
    /\ last.resp.status = 200
    /\ \E n \in last.resp.notes, body \in FieldUpdateBodies :
           /\ n \in notes
           /\ n.id = last.id
           /\ n.userId = last.userId
           /\ "userId" \in DOMAIN body /\ body.userId # n.userId
           /\ "id" \in DOMAIN body /\ body.id # n.id
           /\ \A f \in NoteFields \cap DOMAIN body : n[f] = body[f]

\* the step answers a login or a register of client c: a register answers
\* at once when the body is invalid or the email is found, else after the
\* insert
AnswersAuth(c) ==
    \/ /\ last'.op = "login"
       /\ \E body \in LoginBodies :
              body.email = last'.email /\ Login(c, body)
    \/ /\ last'.op = "register"
       /\ \E body \in UserBodies :
              /\ body.email = last'.email
              /\ RegisterStart(users, body).done
              /\ Register(c, body)
    \/ /\ last'.op = "register"
       /\ pending[c] # NoReq
       /\ \E salt \in Salts : RegisterInsert(c, salt)

\* C22: a step that answers a login or a register of a client with anything
\* but 200 (a validation error, invalid credentials, an email in use, a
\* failed insert) leaves every session, that of the caller included, bound
\* as it was, and leaves the users and the notes as they were.
C22_FailedAuthChangesNothing ==
    [][\A c \in Clients :
          (/\ last'.client = c
           /\ last'.op \in {"login", "register"}
           /\ last'.resp.status # 200
           /\ AnswersAuth(c)) =>
              /\ sessions' = sessions
              /\ sessions'[c] = last'.userId
              /\ users' = users
              /\ notes' = notes]_vars

\* a client signed in as a stored user has been refused a login, and its
\* session is still that user's
C22_Witness ==
    /\ last.op = "login"
    /\ last.resp = InvalidCredentials
    /\ last.userId # NoUser
    /\ sessions[last.client] = last.userId
    /\ getUser(users, last.userId) # {}

\* C23 as stated: when the register request of client c resumes after its
\* existence check found the email unused, either the email is still unused
\* and the request creates the one user with that email and binds the
\* session of c to it, or another request has inserted the email meanwhile
\* and the request creates no user, binds no session and answers 400 "Email
\* ja esta em uso".
C23_RaceLoserGetsDuplicateEmail ==
    [][\A c \in Clients, salt \in Salts :
          (last'.client = c /\ pending[c] # NoReq /\ RegisterInsert(c, salt)) =>
              IF getUserByEmail(users, pending[c].email) = {}
              THEN /\ last'.resp.status = 200
                   /\ \E u \in users' :
                          /\ users' = users \cup {u}
                          /\ u \notin users
                          /\ u.email = pending[c].email
                          /\ sessions' = [sessions EXCEPT ![c] = u.id]
              ELSE /\ users' = users
                   /\ sessions' = sessions
                   /\ last'.resp = EmailInUse]_vars

\* of two register requests that raced for an email one has created the
\* user and holds the session; the other has been answered 500, has created
\* nothing and holds no session
C23_Witness ==
    /\ last.op = "register"
    /\ last.resp = InternalError
    /\ last.userId = NoUser
    /\ sessions[last.client] = NoUser
    /\ \E u \in users, c \in Clients :
           /\ c # last.client
           /\ u.email = last.email
           /\ sessions[c] = u.id
           /\ \A v \in users : v.email = u.email => v = u

====
